---- MODULE Spec2Model ----
(***************************************************************************)
(* A model of programma_commerciali.py: a Streamlit page that re-ingests   *)
(* sales_data.csv into the SQLite table vendite on every render, scopes    *)
(* the table by the e-mail typed by the salesperson, filters the scoped    *)
(* rows by year / quarter / product / area and answers keyword questions.  *)
(*                                                                         *)
(* Representation.  A Python str is the sequence of its characters, so     *)
(* that lower(), the substring test `in`, str(), int() and the f-string    *)
(* formats are computed and not assumed.  A revenue (ricavo) is a decimal  *)
(* amount with two decimals, held as its count of euro cents.  A CSV cell  *)
(* is <<v>> when it holds the value v and <<>> when it is missing (NaN).   *)
(***************************************************************************)
EXTENDS Integers, Sequences, FiniteSets, TLC

VARIABLES
    csv,                \* the rows of sales_data.csv (the file does not change)
    store,              \* the rows of table vendite, in rowid order
    run,                \* the number of the current render of the page
    pc,                 \* the position of the render inside main()
    conn,               \* the connection of this render: "none", "open", "closed"
    row_i,              \* the index of the next CSV row of the iterrows loop
    ui,                 \* the st.error / st.success / st.warning / st.info calls
    email_commerciale,  \* the text of the e-mail input
    df_commerciale,     \* the DataFrame returned by filter_by_email
    criteria,           \* the arguments anno, trimestre, prodotto, area of query_data
    risultati_query,    \* the DataFrame returned by query_data
    domanda_agente,     \* the text of the question input
    risposta_agente,    \* the string returned by get_agent_response
    stats,              \* the tables of the groupby(...).sum() calls
    store0,             \* history: the table when this render began
    ingest,             \* history: how the ingestion of this render ended
    ok_runs             \* history: the number of renders that reached line 142

vars == <<csv, store, run, pc, conn, row_i, ui, email_commerciale, df_commerciale,
          criteria, risultati_query, domanda_agente, risposta_agente, stats,
          store0, ingest, ok_runs>>

(***************************************************************************)
(* Bounds of the model.                                                    *)
(***************************************************************************)
MaxRows == 2
MaxRuns == 2
MaxLen == 2
MaxWords == 3

(***************************************************************************)
(* String literals of the source, as character sequences.                  *)
(***************************************************************************)
\* the literal "Tutti" (lines 73, 75, 77, 155-167)
TUTTI ==
    <<"T", "u", "t", "t", "i">>
\* the literal "Tutte" (lines 79, 161, 168)
TUTTE ==
    <<"T", "u", "t", "t", "e">>
KW_vendite ==
    <<"v", "e", "n", "d", "i", "t", "e">>
KW_anno ==
    <<"a", "n", "n", "o">>
KW_trimestre ==
    <<"t", "r", "i", "m", "e", "s", "t", "r", "e">>
KW_prodotto ==
    <<"p", "r", "o", "d", "o", "t", "t", "o">>
KW_articolo ==
    <<"a", "r", "t", "i", "c", "o", "l", "o">>
KW_area ==
    <<"a", "r", "e", "a">>
KW_geografica ==
    <<"g", "e", "o", "g", "r", "a", "f", "i", "c", "a">>
KW_regione ==
    <<"r", "e", "g", "i", "o", "n", "e">>
KW_ricavo ==
    <<"r", "i", "c", "a", "v", "o">>
KW_totale ==
    <<"t", "o", "t", "a", "l", "e">>
KW_totale_ricavo ==
    <<"t", "o", "t", "a", "l", "e", " ", "r", "i", "c", "a", "v", "o">>
KW_quantita ==
    <<"q", "u", "a", "n", "t", "i", "t", "à">>
KW_totale_quantita ==
    <<"t", "o", "t", "a", "l", "e", " ", "q", "u", "a", "n", "t", "i", "t", "à">>
\* line 92
MSG_no_data ==
    <<"N", "o", "n", " ", "c", "i", " ", "s", "o", "n", "o", " ", "d", "a", "t", "i", " ", "d",
    "i", " ", "v", "e", "n", "d", "i", "t", "a", " ", "d", "i", "s", "p", "o", "n", "i", "b",
    "i", "l", "i", " ", "p", "e", "r", " ", "l", "a", " ", "t", "u", "a", " ", "e", "m", "a",
    "i", "l", ".">>
\* line 96
MSG_per_anno ==
    <<"L", "e", " ", "t", "u", "e", " ", "v", "e", "n", "d", "i", "t", "e", " ", "p", "e", "r",
    " ", "a", "n", "n", "o", ":", "\n">>
\* line 99
MSG_per_trimestre ==
    <<"L", "e", " ", "t", "u", "e", " ", "v", "e", "n", "d", "i", "t", "e", " ", "p", "e", "r",
    " ", "t", "r", "i", "m", "e", "s", "t", "r", "e", ":", "\n">>
\* line 102
MSG_per_prodotto ==
    <<"L", "e", " ", "t", "u", "e", " ", "v", "e", "n", "d", "i", "t", "e", " ", "p", "e", "r",
    " ", "p", "r", "o", "d", "o", "t", "t", "o", ":", "\n">>
\* line 105
MSG_per_area ==
    <<"L", "e", " ", "t", "u", "e", " ", "v", "e", "n", "d", "i", "t", "e", " ", "p", "e", "r",
    " ", "a", "r", "e", "a", " ", "g", "e", "o", "g", "r", "a", "f", "i", "c", "a", ":", "\n">>
\* line 99
MSG_trimestre_prefix ==
    <<"T", "r", "i", "m", "e", "s", "t", "r", "e", " ">>
\* lines 96-105
MSG_sep ==
    <<":", " ", "€">>
\* line 108
MSG_ricavo_totale ==
    <<"I", "l", " ", "t", "u", "o", " ", "r", "i", "c", "a", "v", "o", " ", "t", "o", "t", "a",
    "l", "e", " ", "è", " ", "d", "i", " ", "€">>
\* line 111
MSG_quantita_totale ==
    <<"L", "a", " ", "t", "u", "a", " ", "q", "u", "a", "n", "t", "i", "t", "à", " ", "t", "o",
    "t", "a", "l", "e", " ", "v", "e", "n", "d", "u", "t", "a", " ", "è", " ", "d", "i", " ">>
\* lines 108, 111
MSG_dot ==
    <<".">>
\* the separator of "\n".join (lines 96-105)
MSG_newline ==
    <<"\n">>
\* line 113
MSG_fallback ==
    <<"N", "o", "n", " ", "h", "o", " ", "c", "a", "p", "i", "t", "o", " ", "l", "a", " ", "d",
    "o", "m", "a", "n", "d", "a", ".", " ", "P", "u", "o", "i", " ", "c", "h", "i", "e", "d",
    "e", "r", "e", " ", "i", "n", "f", "o", "r", "m", "a", "z", "i", "o", "n", "i", " ", "s",
    "u", "l", "l", "e", " ", "t", "u", "e", " ", "v", "e", "n", "d", "i", "t", "e", " ", "p",
    "e", "r", " ", "a", "n", "n", "o", ",", " ", "t", "r", "i", "m", "e", "s", "t", "r", "e",
    ",", " ", "p", "r", "o", "d", "o", "t", "t", "o", ",", " ", "a", "r", "e", "a", ",", " ",
    "r", "i", "c", "a", "v", "o", " ", "t", "o", "t", "a", "l", "e", " ", "o", " ", "q", "u",
    "a", "n", "t", "i", "t", "à", " ", "t", "o", "t", "a", "l", "e", ".">>

\* The characters of the model's strings, in code point order.
CodePoints ==
    <<"\n", " ", "'", ",", ".", "0", "1", "2", "3", "4", "5", "6", "7", "8", "9", ":", "?",
    "@", "A", "B", "C", "D", "E", "F", "G", "H", "I", "J", "K", "L", "M", "N", "O", "P", "Q",
    "R", "S", "T", "U", "V", "W", "X", "Y", "Z", "a", "b", "c", "d", "e", "f", "g", "h", "i",
    "j", "k", "l", "m", "n", "o", "p", "q", "r", "s", "t", "u", "v", "w", "x", "y", "z", "À",
    "à", "è", "€">>

\* str.lower() on one character: the upper-case letters of CodePoints map to
\* their lower-case forms, every other character to itself.
Upper ==
    <<"A", "B", "C", "D", "E", "F", "G", "H", "I", "J", "K", "L", "M", "N", "O", "P", "Q",
    "R", "S", "T", "U", "V", "W", "X", "Y", "Z", "À">>
LowerOf ==
    <<"a", "b", "c", "d", "e", "f", "g", "h", "i", "j", "k", "l", "m", "n", "o", "p", "q",
    "r", "s", "t", "u", "v", "w", "x", "y", "z", "à">>

(***************************************************************************)
(* Python and pandas built-ins used by the source.                         *)
(***************************************************************************)
\* Python None (no str is equal to it: every character is one-letter long).
None == <<"None">>

\* A missing CSV cell, read by pandas as NaN and bound by sqlite3 as NULL.
NaN == <<>>

\* The truth value of an optional str argument: None and "" are false.
Truthy(s) == s # None /\ s # <<>>

\* ord(c): the rank of the character in code point order.
Ord(c) == CHOOSE i \in DOMAIN CodePoints : CodePoints[i] = c

\* str.lower().
LowerChar(c) ==
    IF \E i \in DOMAIN Upper : Upper[i] = c
    THEN LowerOf[CHOOSE i \in DOMAIN Upper : Upper[i] = c]
    ELSE c

Lower(s) == [i \in DOMAIN s |-> LowerChar(s[i])]

\* sub in s: s holds sub as a run of consecutive characters.
Contains(s, sub) ==
    \E i \in 0..(Len(s) - Len(sub)) : SubSeq(s, i + 1, i + Len(sub)) = sub

\* a < b on str: lexicographic by code point, a proper prefix being smaller.
StrLess(a, b) ==
    \E i \in 1..Len(b) :
        /\ \A j \in 1..(i - 1) : j <= Len(a) /\ a[j] = b[j]
        /\ \/ i = Len(a) + 1
           \/ i <= Len(a) /\ Ord(a[i]) < Ord(b[i])

IntLess(a, b) == a < b

\* The decimal digits, by value + 1.
Digits == <<"0", "1", "2", "3", "4", "5", "6", "7", "8", "9">>

\* str(n) for an int n >= 0.
RECURSIVE Str(_)
Str(n) == IF n < 10 THEN <<Digits[n + 1]>>
          ELSE Str(n \div 10) \o <<Digits[(n % 10) + 1]>>

\* int(s) for a str of decimal digits.
DigitVal(c) == (CHOOSE i \in DOMAIN Digits : Digits[i] = c) - 1

RECURSIVE ParseInt(_)
ParseInt(s) == IF Len(s) = 0 THEN 0
          ELSE 10 * ParseInt(SubSeq(s, 1, Len(s) - 1)) + DigitVal(s[Len(s)])

\* f"{x:.2f}" for an amount of x euro cents.
Fmt2f(cents) ==
    Str(cents \div 100) \o <<".">>
        \o <<Digits[((cents \div 10) % 10) + 1], Digits[(cents % 10) + 1]>>

\* sep.join(parts).
RECURSIVE Join(_, _)
Join(sep, parts) ==
    IF Len(parts) = 0 THEN <<>>
    ELSE IF Len(parts) = 1 THEN parts[1]
    ELSE parts[1] \o sep \o Join(sep, Tail(parts))

\* sorted(S): the members of S in ascending order of Less.
SortedBy(S, Less(_, _)) ==
    [i \in 1..Cardinality(S) |->
        CHOOSE k \in S : Cardinality({j \in S : Less(j, k)}) = i - 1]

\* Series.unique(): the distinct values of a column.
Unique(df, col) == {df[i][col] : i \in DOMAIN df}

\* Series.sum() of a column.
RECURSIVE SumCol(_, _)
SumCol(df, col) ==
    IF Len(df) = 0 THEN 0 ELSE df[1][col] + SumCol(Tail(df), col)

\* df[mask]: the rows whose mask is true, in the order of df.
RECURSIVE Mask(_, _)
Mask(df, mask) ==
    IF Len(df) = 0 THEN <<>>
    ELSE (IF mask[1] THEN <<df[1]>> ELSE <<>>) \o Mask(Tail(df), Tail(mask))

\* A groupby sum that keeps, for each key, the measure of its last row.
groupby_sum_last(df, key, measure) ==
    [k \in Unique(df, key) |->
        LET rows == Mask(df, [i \in DOMAIN df |-> df[i][key] = k])
        IN  rows[Len(rows)][measure]]

\* df.groupby(key)[measure].sum(): one entry per distinct key of df, holding
\* the sum of the measure over the rows of that key.
GroupRows(df, key, k) == Mask(df, [i \in DOMAIN df |-> df[i][key] = k])

groupby_sum(df, key, measure) ==
    [k \in Unique(df, key) |-> SumCol(GroupRows(df, key, k), measure)]

(***************************************************************************)
(* The table vendite and the CSV source.                                   *)
(***************************************************************************)
\* The header of sales_data.csv, in the order main() reads the cells of a row.
CsvColumns ==
    <<"Nome Commerciale", "Email Commerciale", "Anno", "Trimestre", "Prodotto",
      "Area Geografica", "Quantità", "Ricavo (€)">>

\* The columns named by the INSERT statement, in its order.
InsertColumns ==
    <<"nome_commerciale", "email_commerciale", "anno", "trimestre", "prodotto",
      "area_geografica", "quantita", "ricavo">>

\* The columns named by both SELECT statements, in their order.
SelectColumns ==
    <<"nome_commerciale", "anno", "trimestre", "prodotto", "area_geografica",
      "quantita", "ricavo">>

\* id integer PRIMARY KEY: the rowid SQLite assigns, one more than the largest.
RECURSIVE MaxId(_)
MaxId(tbl) ==
    IF Len(tbl) = 0 THEN 0
    ELSE LET m == MaxId(Tail(tbl)) IN IF tbl[1].id > m THEN tbl[1].id ELSE m

NextRowid(tbl) == MaxId(tbl) + 1

\* The NOT NULL constraints of create_table: a NaN is bound as NULL.
NotNullOk(data) == \A i \in DOMAIN data : data[i] # NaN

\* insert_data: the row the INSERT appends, the i-th value of data going to
\* the i-th column of the statement.
NewRow(tbl, data) ==
    [c \in {"id"} \cup {InsertColumns[i] : i \in DOMAIN InsertColumns} |->
        IF c = "id" THEN NextRowid(tbl)
        ELSE data[CHOOSE i \in DOMAIN InsertColumns : InsertColumns[i] = c][1]]

\* An insert_data that leaves the table alone when it already holds a row of
\* the same values (an upsert on the natural key).
insert_data_dedup(tbl, data) ==
    IF \E j \in DOMAIN tbl :
          \A c \in DOMAIN tbl[j] : c # "id" => tbl[j][c] = NewRow(tbl, data)[c]
    THEN tbl
    ELSE Append(tbl, NewRow(tbl, data))

insert_data(tbl, data) == Append(tbl, NewRow(tbl, data))

\* A SELECT without ORDER BY scans the table in rowid order.
RowidOrder(tbl) ==
    [i \in 1..Len(tbl) |->
        CHOOSE r \in {tbl[j] : j \in DOMAIN tbl} :
            Cardinality({j \in DOMAIN tbl : tbl[j].id < r.id}) = i - 1]

\* The columns of a SELECT, as one DataFrame row.
Project(r) == [c \in {SelectColumns[i] : i \in DOMAIN SelectColumns} |-> r[c]]

\* load_data: every row of the table.
load_data(tbl) ==
    LET rows == RowidOrder(tbl) IN [i \in DOMAIN rows |-> Project(rows[i])]

\* The comparison of a column declared COLLATE NOCASE.
EmailMatches_nocase(stored, email) == Lower(stored) = Lower(email)

\* WHERE email_commerciale = ?, under the BINARY collation of a text column.
EmailMatches(stored, email) == stored = email

\* filter_by_email: the rows of the table whose e-mail is the parameter.
filter_by_email(tbl, email) ==
    LET rows == RowidOrder(tbl)
        hit == Mask(rows, [i \in DOMAIN rows |->
                              EmailMatches(rows[i].email_commerciale, email)])
    IN  [i \in DOMAIN hit |-> Project(hit[i])]

(***************************************************************************)
(* query_data.                                                             *)
(***************************************************************************)
\* A query_data that assigns the comparison to the mask and so forgets the
\* conditions before it.
Narrow_overwrite(query, df, arg, all, col, IsInt) ==
    IF Truthy(arg) /\ arg # all
    THEN [i \in DOMAIN df |-> df[i][col] = (IF IsInt THEN ParseInt(arg) ELSE arg)]
    ELSE query

\* One condition of query_data: the mask is narrowed only by an argument that
\* is true and is not the "all" literal.
Narrow(query, df, arg, all, col, IsInt) ==
    IF Truthy(arg) /\ arg # all
    THEN [i \in DOMAIN df |->
            query[i] /\ df[i][col] = (IF IsInt THEN ParseInt(arg) ELSE arg)]
    ELSE query

query_data(df, anno, trimestre, prodotto, area) ==
    LET q0 == [i \in DOMAIN df |-> TRUE]
        q1 == Narrow(q0, df, anno, TUTTI, "anno", TRUE)
        q2 == Narrow(q1, df, trimestre, TUTTI, "trimestre", TRUE)
        q3 == Narrow(q2, df, prodotto, TUTTI, "prodotto", FALSE)
        q4 == Narrow(q3, df, area, TUTTE, "area_geografica", FALSE)
    IN  Mask(df, q4)

(***************************************************************************)
(* get_agent_response.                                                     *)
(***************************************************************************)
\* The lines of one per-group answer, in the ascending key order of groupby.
GroupLines(g, keys, prefix, KeyStr(_)) ==
    [i \in DOMAIN keys |-> prefix \o KeyStr(keys[i]) \o MSG_sep \o Fmt2f(g[keys[i]])]

Same(s) == s

\* The keyword rules, in the order of the if / elif chain.
\* The keyword rules with the two totals tested before the per-group rules.
Rule_totals_first(d) ==
    IF (Contains(d, KW_ricavo) /\ Contains(d, KW_totale))
       \/ Contains(d, KW_totale_ricavo) THEN "ricavo"
    ELSE IF (Contains(d, KW_quantita) /\ Contains(d, KW_totale))
            \/ Contains(d, KW_totale_quantita) THEN "quantita"
    ELSE IF Contains(d, KW_vendite) /\ Contains(d, KW_anno) THEN "anno"
    ELSE IF Contains(d, KW_vendite) /\ Contains(d, KW_trimestre) THEN "trimestre"
    ELSE IF Contains(d, KW_vendite)
            /\ (Contains(d, KW_prodotto) \/ Contains(d, KW_articolo)) THEN "prodotto"
    ELSE IF Contains(d, KW_vendite)
            /\ (Contains(d, KW_area) \/ Contains(d, KW_geografica)
                \/ Contains(d, KW_regione)) THEN "area_geografica"
    ELSE "none"

Rule(d) ==
    IF Contains(d, KW_vendite) /\ Contains(d, KW_anno) THEN "anno"
    ELSE IF Contains(d, KW_vendite) /\ Contains(d, KW_trimestre) THEN "trimestre"
    ELSE IF Contains(d, KW_vendite)
            /\ (Contains(d, KW_prodotto) \/ Contains(d, KW_articolo)) THEN "prodotto"
    ELSE IF Contains(d, KW_vendite)
            /\ (Contains(d, KW_area) \/ Contains(d, KW_geografica)
                \/ Contains(d, KW_regione)) THEN "area_geografica"
    ELSE IF (Contains(d, KW_ricavo) /\ Contains(d, KW_totale))
            \/ Contains(d, KW_totale_ricavo) THEN "ricavo"
    ELSE IF (Contains(d, KW_quantita) /\ Contains(d, KW_totale))
            \/ Contains(d, KW_totale_quantita) THEN "quantita"
    ELSE "none"

Answer(df, rule) ==
    CASE rule = "anno" ->
            LET g == groupby_sum(df, "anno", "ricavo") IN
            MSG_per_anno \o Join(MSG_newline,
                GroupLines(g, SortedBy(DOMAIN g, IntLess), <<>>, Str))
      [] rule = "trimestre" ->
            LET g == groupby_sum(df, "trimestre", "ricavo") IN
            MSG_per_trimestre \o Join(MSG_newline,
                GroupLines(g, SortedBy(DOMAIN g, IntLess), MSG_trimestre_prefix, Str))
      [] rule = "prodotto" ->
            LET g == groupby_sum(df, "prodotto", "ricavo") IN
            MSG_per_prodotto \o Join(MSG_newline,
                GroupLines(g, SortedBy(DOMAIN g, StrLess), <<>>, Same))
      [] rule = "area_geografica" ->
            LET g == groupby_sum(df, "area_geografica", "ricavo") IN
            MSG_per_area \o Join(MSG_newline,
                GroupLines(g, SortedBy(DOMAIN g, StrLess), <<>>, Same))
      [] rule = "ricavo" ->
            MSG_ricavo_totale \o Fmt2f(SumCol(df, "ricavo")) \o MSG_dot
      [] rule = "quantita" ->
            MSG_quantita_totale \o Str(SumCol(df, "quantita")) \o MSG_dot
      [] OTHER -> MSG_fallback

\* A get_agent_response that tests for an empty DataFrame only when no rule
\* matches.
get_agent_response_rules_first(df, domanda) ==
    LET rule == Rule(Lower(domanda)) IN
    IF rule # "none" THEN Answer(df, rule)
    ELSE IF Len(df) = 0 THEN MSG_no_data
    ELSE MSG_fallback

get_agent_response(df, domanda) ==
    LET domanda_lower == Lower(domanda) IN
    IF Len(df) = 0 THEN MSG_no_data
    ELSE Answer(df, Rule(domanda_lower))

(***************************************************************************)
(* Inputs: the rows a sales_data.csv may hold, the e-mails and questions   *)
(* a user may type.                                                        *)
(***************************************************************************)
S_Luca == <<"L", "u", "c", "a">>
S_Anna == <<"A", "n", "n", "a">>
S_luca_mail == <<"l", "@", "x">>
S_Luca_mail == <<"L", "@", "x">>
S_anna_mail == <<"a", "@", "x">>
S_A == <<"A">>
S_B == <<"B">>
S_Nord == <<"N", "o", "r", "d">>
S_Sud == <<"S", "u", "d">>

CsvRow(nome, email, anno, trimestre, prodotto, area, quantita, ricavo) ==
    LET cells == <<nome, email, anno, trimestre, prodotto, area, quantita, ricavo>>
    IN  [c \in {CsvColumns[i] : i \in DOMAIN CsvColumns} |->
            cells[CHOOSE i \in DOMAIN CsvColumns : CsvColumns[i] = c]]

\* Three well-formed rows, two of one e-mail and one of an e-mail that differs
\* from it by case only, and one row whose Prodotto cell is missing.
SourceRows ==
    { CsvRow(<<S_Luca>>, <<S_luca_mail>>, <<2023>>, <<1>>, <<S_A>>, <<S_Nord>>,
             <<10>>, <<10000>>),
      CsvRow(<<S_Luca>>, <<S_luca_mail>>, <<2024>>, <<2>>, <<S_B>>, <<S_Sud>>,
             <<5>>, <<5050>>),
      CsvRow(<<S_Anna>>, <<S_Luca_mail>>, <<2024>>, <<1>>, <<S_A>>, <<S_Sud>>,
             <<3>>, <<2999>>),
      CsvRow(<<S_Anna>>, <<S_anna_mail>>, <<2023>>, <<1>>, NaN, <<S_Nord>>,
             <<1>>, <<100>>) }

SeqsUpTo(S, n) == UNION {[1..k -> S] : k \in 0..n}

CsvFiles == SeqsUpTo(SourceRows, MaxRows)

EmailInputs == {<<>>, S_luca_mail, S_Luca_mail, S_anna_mail}

Q_ricavo_totale ==
    <<"Q", "u", "a", "l", " ", "è", " ", "i", "l", " ", "R", "i", "c", "a", "v", "o", " ",
      "t", "o", "t", "a", "l", "e", "?">>
Q_vendite_anno ==
    <<"v", "e", "n", "d", "i", "t", "e", " ", "p", "e", "r", " ", "a", "n", "n", "o">>

MainQuestions == {<<>>, Q_ricavo_totale, Q_vendite_anno}

GroupKeys == {"anno", "trimestre", "prodotto", "area_geografica"}

(***************************************************************************)
(* main(): one render of the page, step by step.                           *)
(***************************************************************************)
NoCriteria == [anno |-> None, trimestre |-> None, prodotto |-> None, area |-> None]

\* The locals of main() before any of them is assigned.
FreshLocals ==
    /\ row_i = 0
    /\ ui = <<>>
    /\ email_commerciale = None
    /\ df_commerciale = <<>>
    /\ criteria = NoCriteria
    /\ risultati_query = <<>>
    /\ domanda_agente = None
    /\ risposta_agente = None
    /\ stats = <<>>
    /\ ingest = "none"

Init ==
    /\ csv \in CsvFiles
    /\ store = <<>>
    /\ store0 = <<>>
    /\ run = 1
    /\ pc = "start"
    /\ conn = "none"
    /\ ok_runs = 0
    /\ FreshLocals

\* Lines 116-125: create_connection, then create_table (CREATE TABLE IF NOT
\* EXISTS leaves the rows of an existing table alone).
main_connect ==
    /\ pc = "start"
    /\ \E connected \in BOOLEAN :
        IF connected
        THEN /\ conn' = "open"
             /\ pc' = "read_csv"
             /\ ui' = ui
        ELSE /\ conn' = "none"
             /\ ui' = Append(ui, "error: Impossibile connettersi al database.")
             /\ pc' = "returned"
    /\ UNCHANGED <<csv, store, run, row_i, email_commerciale, df_commerciale, criteria,
                   risultati_query, domanda_agente, risposta_agente, stats, store0,
                   ingest, ok_runs>>

\* Line 129 and, when read_csv raises, lines 143-145: the render returns
\* without reaching line 206.
main_read_csv ==
    /\ pc = "read_csv"
    /\ \E readable \in BOOLEAN :
        IF readable
        THEN /\ pc' = "iterrows"
             /\ row_i' = 1
             /\ UNCHANGED <<ui, ingest>>
        ELSE /\ pc' = "returned"
             /\ ui' = Append(ui, "error: Errore durante il caricamento dei dati dal CSV")
             /\ ingest' = "read_error"
             /\ row_i' = row_i
    /\ UNCHANGED <<csv, store, run, conn, email_commerciale, df_commerciale, criteria,
                   risultati_query, domanda_agente, risposta_agente, stats, store0, ok_runs>>

\* The tuple with the Anno and Trimestre cells in each other's place.
DataOf_swapped(row) ==
    LET order == <<1, 2, 4, 3, 5, 6, 7, 8>>
    IN  [i \in DOMAIN CsvColumns |-> row[CsvColumns[order[i]]]]

\* Lines 131-140: the tuple main() builds from one CSV row.
DataOf(row) == [i \in DOMAIN CsvColumns |-> row[CsvColumns[i]]]

\* An ingestion that reports a row insert_data refuses and goes on with the
\* next row.
main_iterrows_skip ==
    /\ pc = "iterrows"
    /\ row_i <= Len(csv)
    /\ LET data == DataOf(csv[row_i]) IN
        IF NotNullOk(data)
        THEN /\ store' = insert_data(store, data)
             /\ UNCHANGED <<ui, ingest>>
        ELSE /\ ui' = Append(ui, "error: Errore durante il caricamento dei dati dal CSV")
             /\ ingest' = "insert_error"
             /\ store' = store
    /\ row_i' = row_i + 1
    /\ UNCHANGED <<csv, run, pc, conn, email_commerciale, df_commerciale, criteria,
                   risultati_query, domanda_agente, risposta_agente, stats, store0,
                   ok_runs>>

\* An ingestion that commits once, after the last row: a refused row rolls
\* the rows of this render back.
main_iterrows_atomic ==
    /\ pc = "iterrows"
    /\ row_i <= Len(csv)
    /\ LET data == DataOf(csv[row_i]) IN
        IF NotNullOk(data)
        THEN /\ store' = insert_data(store, data)
             /\ row_i' = row_i + 1
             /\ UNCHANGED <<pc, ui, ingest>>
        ELSE /\ pc' = "returned"
             /\ ui' = Append(ui, "error: Errore durante il caricamento dei dati dal CSV")
             /\ ingest' = "insert_error"
             /\ store' = store0
             /\ row_i' = row_i
    /\ UNCHANGED <<csv, run, conn, email_commerciale, df_commerciale, criteria,
                   risultati_query, domanda_agente, risposta_agente, stats, store0,
                   ok_runs>>

\* Lines 130-141 for one row: insert_data commits the row, or raises
\* IntegrityError, which lines 143-145 catch: st.error and return.
main_iterrows ==
    /\ pc = "iterrows"
    /\ row_i <= Len(csv)
    /\ LET data == DataOf(csv[row_i]) IN
        IF NotNullOk(data)
        THEN /\ store' = insert_data(store, data)
             /\ row_i' = row_i + 1
             /\ UNCHANGED <<pc, ui, ingest>>
        ELSE /\ pc' = "returned"
             /\ ui' = Append(ui, "error: Errore durante il caricamento dei dati dal CSV")
             /\ ingest' = "insert_error"
             /\ UNCHANGED <<store, row_i>>
    /\ UNCHANGED <<csv, run, conn, email_commerciale, df_commerciale, criteria,
                   risultati_query, domanda_agente, risposta_agente, stats, store0, ok_runs>>

\* Line 142: the loop is over.
main_loaded ==
    /\ pc = "iterrows"
    /\ row_i > Len(csv)
    /\ ui' = Append(ui, "success: Dati caricati dal CSV nel database.")
    /\ ingest' = "ok"
    /\ ok_runs' = ok_runs + 1
    /\ pc' = "email"
    /\ UNCHANGED <<csv, store, run, conn, row_i, email_commerciale, df_commerciale,
                   criteria, risultati_query, domanda_agente, risposta_agente, stats,
                   store0>>

\* Lines 147-152 and 202-206: the e-mail input and the scoped scan.  An empty
\* input or an unknown e-mail goes straight to conn.close().
main_email ==
    /\ pc = "email"
    /\ \E email \in EmailInputs :
        /\ email_commerciale' = email
        /\ IF Truthy(email)
           THEN LET df == filter_by_email(store, email) IN
                /\ df_commerciale' = df
                /\ IF Len(df) # 0
                   THEN /\ pc' = "filters"
                        /\ UNCHANGED <<ui, conn>>
                   ELSE /\ ui' = Append(ui, "warning: Email non riconosciuta nel database.")
                        /\ conn' = "closed"
                        /\ pc' = "returned"
           ELSE /\ conn' = "closed"
                /\ pc' = "returned"
                /\ UNCHANGED <<ui, df_commerciale>>
    /\ UNCHANGED <<csv, store, run, row_i, criteria, risultati_query, domanda_agente,
                   risposta_agente, stats, store0, ingest, ok_runs>>

\* Lines 154-161: the options of the four select boxes.
StrOptions(df, col) == {Str(v) : v \in Unique(df, col)}

\* Lines 165-168: a select box left on its "all" option passes None.
ArgOf(selezionato, all) == IF selezionato # all THEN selezionato ELSE None

\* Lines 184-190: groupby(key).agg({'ricavo': 'sum', 'quantita': 'sum'}).
groupby_agg(df, key) ==
    [ricavo |-> groupby_sum(df, key, "ricavo"),
     quantita |-> groupby_sum(df, key, "quantita")]

\* Lines 153-192: the select boxes, query_data and the results column with
\* its check boxes.
main_filters ==
    /\ pc = "filters"
    /\ \E anno_selezionato \in {TUTTI} \cup StrOptions(df_commerciale, "anno"),
          trimestre_selezionato \in {TUTTI} \cup StrOptions(df_commerciale, "trimestre"),
          prodotto_selezionato \in {TUTTI} \cup Unique(df_commerciale, "prodotto"),
          area_selezionata \in {TUTTE} \cup Unique(df_commerciale, "area_geografica"),
          checked \in SUBSET GroupKeys :
        LET args == [anno |-> ArgOf(anno_selezionato, TUTTI),
                     trimestre |-> ArgOf(trimestre_selezionato, TUTTI),
                     prodotto |-> ArgOf(prodotto_selezionato, TUTTI),
                     area |-> ArgOf(area_selezionata, TUTTE)]
            res == query_data(df_commerciale, args.anno, args.trimestre,
                              args.prodotto, args.area)
        IN  /\ criteria' = args
            /\ risultati_query' = res
            /\ IF Len(res) # 0
               THEN /\ stats' = [k \in checked |-> groupby_agg(res, k)]
                    /\ ui' = ui
               ELSE /\ stats' = stats
                    /\ ui' = Append(ui, "info: Nessun risultato trovato con i filtri selezionati.")
    /\ pc' = "agent"
    /\ UNCHANGED <<csv, store, run, conn, row_i, email_commerciale, df_commerciale,
                   domanda_agente, risposta_agente, store0, ingest, ok_runs>>

\* Lines 194-200 and 205-206: the question input, the answer, conn.close().
main_agent ==
    /\ pc = "agent"
    /\ \E domanda \in MainQuestions :
        /\ domanda_agente' = domanda
        /\ risposta_agente' =
              IF Truthy(domanda) THEN get_agent_response(risultati_query, domanda)
              ELSE risposta_agente
    /\ conn' = "closed"
    /\ pc' = "returned"
    /\ UNCHANGED <<csv, store, run, row_i, ui, email_commerciale, df_commerciale,
                   criteria, risultati_query, stats, store0, ingest, ok_runs>>

\* Streamlit runs main() again: a new render over the same sales_data.db.
main_rerun ==
    /\ pc = "returned"
    /\ run < MaxRuns
    /\ run' = run + 1
    /\ pc' = "start"
    /\ conn' = "none"
    /\ store0' = store
    /\ row_i' = 0
    /\ ui' = <<>>
    /\ email_commerciale' = None
    /\ df_commerciale' = <<>>
    /\ criteria' = NoCriteria
    /\ risultati_query' = <<>>
    /\ domanda_agente' = None
    /\ risposta_agente' = None
    /\ stats' = <<>>
    /\ ingest' = "none"
    /\ UNCHANGED <<csv, store, ok_runs>>

Next ==
    \/ main_connect
    \/ main_read_csv
    \/ main_iterrows
    \/ main_loaded
    \/ main_email
    \/ main_filters
    \/ main_agent
    \/ main_rerun

Spec == Init /\ [][Next]_vars

(***************************************************************************)
(* query_data, get_agent_response and the groupby sums on their own: the   *)
(* arguments are drawn from bounded sets and the function is applied.      *)
(***************************************************************************)
\* The DataFrame rows of the well-formed source rows.
FrameRows ==
    {Project(NewRow(<<>>, DataOf(r))) : r \in {x \in SourceRows : NotNullOk(DataOf(x))}}

Frames == SeqsUpTo(FrameRows, MaxLen)

S_2025 == <<"2", "0", "2", "5">>
S_3 == <<"3">>
S_C == <<"C">>
S_Est == <<"E", "s", "t">>

\* Arguments of query_data: None, "", the "all" literal, values of the rows
\* and values of no row.
AnnoArgs == {None, <<>>, TUTTI, Str(2023), Str(2024), S_2025}
TrimestreArgs == {None, TUTTI, Str(1), Str(2), S_3}
ProdottoArgs == {None, TUTTI, S_A, S_B, S_C}
AreaArgs == {None, TUTTE, S_Nord, S_Sud, S_Est}

\* Every variable main() alone uses, at its value before the render.
Idle ==
    /\ csv = <<>>
    /\ store = <<>>
    /\ store0 = <<>>
    /\ run = 1
    /\ conn = "none"
    /\ row_i = 0
    /\ ui = <<>>
    /\ email_commerciale = None
    /\ ingest = "none"
    /\ ok_runs = 0

InitQuery ==
    /\ Idle
    /\ pc = "query"
    /\ df_commerciale \in Frames
    /\ criteria \in [anno : AnnoArgs, trimestre : TrimestreArgs,
                     prodotto : ProdottoArgs, area : AreaArgs]
    /\ risultati_query = <<>>
    /\ domanda_agente = None
    /\ risposta_agente = None
    /\ stats = <<>>

call_query_data ==
    /\ pc = "query"
    /\ risultati_query' = query_data(df_commerciale, criteria.anno, criteria.trimestre,
                                     criteria.prodotto, criteria.area)
    /\ pc' = "queried"
    /\ UNCHANGED <<csv, store, run, conn, row_i, ui, email_commerciale, df_commerciale,
                   criteria, domanda_agente, risposta_agente, stats, store0, ingest, ok_runs>>

NextQuery == call_query_data

SpecQuery == InitQuery /\ [][NextQuery]_vars

\* Words a question is made of.
W_Vendite == <<"V", "e", "n", "d", "i", "t", "e">>
W_QUANTITA == <<"Q", "U", "A", "N", "T", "I", "T", "À">>
W_ciao == <<"c", "i", "a", "o">>

\* The keywords of the source, two of them in upper case, and a word that is
\* no keyword.
Vocabulary ==
    {W_Vendite, KW_anno, KW_trimestre, KW_prodotto, KW_articolo, KW_area,
     KW_geografica, KW_regione, KW_ricavo, KW_totale, KW_totale_ricavo, W_QUANTITA,
     KW_totale_quantita, W_ciao}

\* The questions of at most MaxWords words, separated by one space.
Questions == {Join(<<" ">>, ws) : ws \in SeqsUpTo(Vocabulary, MaxWords)}

\* DataFrames of no row, of one group and of two groups per key.
AgentFrames ==
    LET r1 == CHOOSE r \in FrameRows : r.anno = 2023
        r2 == CHOOSE r \in FrameRows : r.anno = 2024 /\ r.prodotto = S_B /\ r.quantita = 5
    IN  {<<>>, <<r1>>, <<r1, r2>>, <<r2, r1, r1>>}

InitAgent ==
    /\ Idle
    /\ pc = "ask"
    /\ df_commerciale = <<>>
    /\ criteria = NoCriteria
    /\ risultati_query \in AgentFrames
    /\ domanda_agente \in Questions \ {<<>>}
    /\ risposta_agente = None
    /\ stats = <<>>

call_get_agent_response ==
    /\ pc = "ask"
    /\ risposta_agente' = get_agent_response(risultati_query, domanda_agente)
    /\ pc' = "answered"
    /\ UNCHANGED <<csv, store, run, conn, row_i, ui, email_commerciale, df_commerciale,
                   criteria, risultati_query, domanda_agente, stats, store0, ingest, ok_runs>>

NextAgent == call_get_agent_response

SpecAgent == InitAgent /\ [][NextAgent]_vars

InitGroupby ==
    /\ Idle
    /\ pc = "group"
    /\ df_commerciale = <<>>
    /\ criteria = NoCriteria
    /\ risultati_query \in Frames
    /\ domanda_agente = None
    /\ risposta_agente = None
    /\ stats = <<>>

call_groupby ==
    /\ pc = "group"
    /\ \E checked \in SUBSET GroupKeys :
        stats' = [k \in checked |-> groupby_agg(risultati_query, k)]
    /\ pc' = "grouped"
    /\ UNCHANGED <<csv, store, run, conn, row_i, ui, email_commerciale, df_commerciale,
                   criteria, risultati_query, domanda_agente, risposta_agente, store0,
                   ingest, ok_runs>>

NextGroupby == call_groupby

SpecGroupby == InitGroupby /\ [][NextGroupby]_vars

(***************************************************************************)
(* Properties.                                                             *)
(***************************************************************************)
\* a is b with some rows left out, the order kept.
RECURSIVE IsSubSeq(_, _)
IsSubSeq(a, b) ==
    IF Len(a) = 0 THEN TRUE
    ELSE IF Len(b) = 0 THEN FALSE
    ELSE IF a[1] = b[1] THEN IsSubSeq(Tail(a), Tail(b))
    ELSE IsSubSeq(a, Tail(b))

\* An argument that names a value: given, not empty and not the "all" literal.
Specified(arg, all) == arg # None /\ arg # <<>> /\ arg # all

\* The row equals every specified criterion on its field.
Satisfies(row, c) ==
    /\ Specified(c.anno, TUTTI) => Str(row.anno) = c.anno
    /\ Specified(c.trimestre, TUTTI) => Str(row.trimestre) = c.trimestre
    /\ Specified(c.prodotto, TUTTI) => row.prodotto = c.prodotto
    /\ Specified(c.area, TUTTE) => row.area_geografica = c.area

QueryOf(df, c) == query_data(df, c.anno, c.trimestre, c.prodotto, c.area)

\* The criteria c with one more field specified.
OneMore(c) ==
    {[c EXCEPT !.anno = a] : a \in {x \in AnnoArgs : ~Specified(c.anno, TUTTI)}}
    \cup {[c EXCEPT !.trimestre = a] :
            a \in {x \in TrimestreArgs : ~Specified(c.trimestre, TUTTI)}}
    \cup {[c EXCEPT !.prodotto = a] :
            a \in {x \in ProdottoArgs : ~Specified(c.prodotto, TUTTI)}}
    \cup {[c EXCEPT !.area = a] : a \in {x \in AreaArgs : ~Specified(c.area, TUTTE)}}

\* C1: the result of query_data is its input with rows left out, holds exactly
\* the input rows that equal every specified criterion on its field, and no
\* criteria with one more field specified gives a longer result.
C1_FilterSoundAndMonotonic ==
    pc = "queried" =>
        /\ IsSubSeq(risultati_query, df_commerciale)
        /\ \A i \in DOMAIN risultati_query : Satisfies(risultati_query[i], criteria)
        /\ Len(risultati_query)
             = Cardinality({i \in DOMAIN df_commerciale :
                              Satisfies(df_commerciale[i], criteria)})
        /\ \A c \in OneMore(criteria) :
             Len(QueryOf(df_commerciale, c)) <= Len(risultati_query)

\* Two criteria are specified and some rows match, some do not.
C1_Witness ==
    /\ pc = "queried"
    /\ Specified(criteria.anno, TUTTI)
    /\ Specified(criteria.prodotto, TUTTI)
    /\ Len(risultati_query) > 0
    /\ Len(risultati_query) < Len(df_commerciale)

\* p is the beginning of s.
IsPrefix(p, s) == Len(p) <= Len(s) /\ SubSeq(s, 1, Len(p)) = p

\* The rules of the Responder, by priority: what the lower-cased question
\* must hold, and how the answer begins.
RuleMatches(n, d) ==
    CASE n = 1 -> Contains(d, KW_vendite) /\ Contains(d, KW_anno)
      [] n = 2 -> Contains(d, KW_vendite) /\ Contains(d, KW_trimestre)
      [] n = 3 -> Contains(d, KW_vendite)
                  /\ (Contains(d, KW_prodotto) \/ Contains(d, KW_articolo))
      [] n = 4 -> Contains(d, KW_vendite)
                  /\ (Contains(d, KW_area) \/ Contains(d, KW_geografica)
                      \/ Contains(d, KW_regione))
      [] n = 5 -> Contains(d, KW_ricavo) /\ Contains(d, KW_totale)
      [] n = 6 -> Contains(d, KW_quantita) /\ Contains(d, KW_totale)

RuleHeads ==
    <<MSG_per_anno, MSG_per_trimestre, MSG_per_prodotto, MSG_per_area,
      MSG_ricavo_totale, MSG_quantita_totale>>

Matching(d) == {n \in DOMAIN RuleHeads : RuleMatches(n, d)}

\* The number of lines of a string.
Lines(s) == 1 + Cardinality({i \in DOMAIN s : s[i] = "\n"})

\* C3: for a DataFrame that is not empty, the answer is that of the first rule,
\* in the order year, quarter, product, area, total revenue, total quantity,
\* that the lower-cased question matches: it begins with that rule's text and
\* with no other rule's, a per-group answer has one line per group after its
\* heading and a total answer states the total; a question that matches no
\* rule gets the fallback message.
C3_FirstMatchingRuleWins ==
    (pc = "answered" /\ Len(risultati_query) # 0) =>
        LET d == Lower(domanda_agente)
            m == Matching(d)
        IN  IF m = {} THEN risposta_agente = MSG_fallback
            ELSE LET n == CHOOSE x \in m : \A y \in m : x <= y IN
                 /\ IsPrefix(RuleHeads[n], risposta_agente)
                 /\ \A y \in DOMAIN RuleHeads :
                        y # n => ~IsPrefix(RuleHeads[y], risposta_agente)
                 /\ n = 1 => Lines(risposta_agente)
                               = 1 + Cardinality(Unique(risultati_query, "anno"))
                 /\ n = 2 => Lines(risposta_agente)
                               = 1 + Cardinality(Unique(risultati_query, "trimestre"))
                 /\ n = 3 => Lines(risposta_agente)
                               = 1 + Cardinality(Unique(risultati_query, "prodotto"))
                 /\ n = 4 => Lines(risposta_agente)
                               = 1 + Cardinality(Unique(risultati_query, "area_geografica"))
                 /\ n = 5 => risposta_agente
                               = MSG_ricavo_totale
                                   \o Fmt2f(SumCol(risultati_query, "ricavo")) \o MSG_dot
                 /\ n = 6 => risposta_agente
                               = MSG_quantita_totale
                                   \o Str(SumCol(risultati_query, "quantita")) \o MSG_dot

\* A question that matches the year rule and the total revenue rule got the
\* per-year answer.
C3_Witness ==
    /\ pc = "answered"
    /\ Len(risultati_query) # 0
    /\ {1, 5} \subseteq Matching(Lower(domanda_agente))
    /\ IsPrefix(MSG_per_anno, risposta_agente)

\* C4: for an empty DataFrame the answer is the no-data message, whatever the
\* question.
C4_EmptyGivesNoData ==
    (pc = "answered" /\ Len(risultati_query) = 0) => risposta_agente = MSG_no_data

\* A question that matches a rule was asked about an empty DataFrame.
C4_Witness ==
    /\ pc = "answered"
    /\ Len(risultati_query) = 0
    /\ Matching(Lower(domanda_agente)) # {}
    /\ risposta_agente = MSG_no_data

\* The sum of the values of g over the keys in ks.
RECURSIVE SumOver(_, _)
SumOver(g, ks) ==
    IF ks = {} THEN 0
    ELSE LET k == CHOOSE x \in ks : TRUE IN g[k] + SumOver(g, ks \ {k})

\* The sum of a measure over the rows with the indices in is.
RECURSIVE SumRows(_, _, _)
SumRows(df, is, measure) ==
    IF is = {} THEN 0
    ELSE LET i == CHOOSE x \in is : TRUE
         IN  df[i][measure] + SumRows(df, is \ {i}, measure)

\* C5: a groupby sum has exactly the keys of its input rows, so that every row
\* is in one group and an empty input gives an empty mapping; each group holds
\* the sum of the measure over the rows of its key, and the group sums add up
\* to the sum of the measure over the whole input.
C5_GroupbyIsPartition ==
    pc = "grouped" =>
        \A key \in DOMAIN stats : \A measure \in {"ricavo", "quantita"} :
            LET g == stats[key][measure]
                df == risultati_query
            IN  /\ \A i \in DOMAIN df : df[i][key] \in DOMAIN g
                /\ \A k \in DOMAIN g :
                     /\ \E i \in DOMAIN df : df[i][key] = k
                     /\ g[k] = SumRows(df, {i \in DOMAIN df : df[i][key] = k}, measure)
                /\ SumOver(g, DOMAIN g) = SumRows(df, DOMAIN df, measure)
                /\ Len(df) = 0 => DOMAIN g = {}

\* Two rows of one year were summed into one group.
C5_Witness ==
    /\ pc = "grouped"
    /\ "anno" \in DOMAIN stats
    /\ Len(risultati_query) = 2
    /\ Cardinality(DOMAIN stats["anno"]["ricavo"]) = 1
    /\ \E k \in DOMAIN stats["anno"]["ricavo"] :
          stats["anno"]["ricavo"][k] = risultati_query[1].ricavo + risultati_query[2].ricavo

\* The fields of SalesRecord other than the id: the CSV column and the table
\* column of each.
RecordFields == {<<CsvColumns[i], InsertColumns[i]>> : i \in DOMAIN CsvColumns}

EmailField == <<"Email Commerciale", "email_commerciale">>

\* The value of a column of a DataFrame row, None when the row has no such
\* column.
ColumnOf(row, c) == IF c \in DOMAIN row THEN row[c] ELSE None

\* The DataFrame row holds the value of the CSV row on the given fields.
SameOn(frameRow, csvRow, fields) ==
    \A f \in fields : csvRow[f[1]] = <<ColumnOf(frameRow, f[2])>>

\* This render ingested the file into an empty table.
LoadedIntoEmpty == ingest = "ok" /\ Len(store0) = 0

\* C2 as stated: after the rows of the file went into an empty table,
\* load_data returns as many rows, in the order of the file, each equal to its
\* source row on every field but the id, the e-mail included.
C2_RoundTripAllFields ==
    LoadedIntoEmpty =>
        LET got == load_data(store) IN
        /\ Len(got) = Len(csv)
        /\ \A i \in DOMAIN got : SameOn(got[i], csv[i], RecordFields)

\* C2, amended: the same, on every field but the id and the e-mail, which
\* load_data does not select.
C2_RoundTripSelectedFields ==
    LoadedIntoEmpty =>
        LET got == load_data(store) IN
        /\ Len(got) = Len(csv)
        /\ \A i \in DOMAIN got :
             /\ SameOn(got[i], csv[i], RecordFields \ {EmailField})
             /\ DOMAIN got[i] = {f[2] : f \in RecordFields \ {EmailField}}

\* Two different rows went into an empty table.
C2_Witness ==
    /\ LoadedIntoEmpty
    /\ Len(csv) = 2
    /\ csv[1] # csv[2]
    /\ Len(load_data(store)) = 2

\* The number of rows of the table that hold the given e-mail and give the
\* given DataFrame row.
Stored(email, frameRow) ==
    Cardinality({j \in DOMAIN store :
                    /\ store[j].email_commerciale = email
                    /\ \A c \in DOMAIN frameRow : store[j][c] = frameRow[c]})

Occurrences(df, frameRow) == Cardinality({i \in DOMAIN df : df[i] = frameRow})

\* C6: once the scan ran, df_commerciale holds the rows of the table whose
\* e-mail is, character for character, the e-mail typed: each as often as the
\* table holds it, none of another e-mail, none left out; and the rows given to
\* the results table and to the agent are among them.
C6_ScopedByExactEmail ==
    (email_commerciale # None /\ email_commerciale # <<>>) =>
        /\ Len(df_commerciale)
             = Cardinality({j \in DOMAIN store :
                              store[j].email_commerciale = email_commerciale})
        /\ \A i \in DOMAIN df_commerciale :
             Occurrences(df_commerciale, df_commerciale[i])
               = Stored(email_commerciale, df_commerciale[i])
        /\ IsSubSeq(risultati_query, df_commerciale)

\* The table holds rows of an e-mail that differs from the typed one by case
\* only, and the scan returned the rows of the typed one.
C6_Witness ==
    /\ pc = "agent"
    /\ email_commerciale = S_luca_mail
    /\ \E j \in DOMAIN store : store[j].email_commerciale = S_Luca_mail
    /\ Len(df_commerciale) > 0
    /\ Len(df_commerciale) < Len(store)
    /\ Len(risultati_query) > 0

\* The number of rows of the table that hold the values of the CSV row.
Copies(csvRow) ==
    Cardinality({j \in DOMAIN store :
                    \A f \in RecordFields : csvRow[f[1]] = <<store[j][f[2]]>>})

\* What C7 asks of one step of a render.
C7_Step ==
    /\ Len(store') >= Len(store)
    /\ \A j \in DOMAIN store : store'[j] = store[j]
    /\ \A i, j \in DOMAIN store' : store'[i].id = store'[j].id => i = j
    /\ ingest' = "ok" => Len(store') = Len(store0') + Len(csv')
    /\ (ok_runs' >= 1 /\ pc' # "iterrows") =>
          \A i \in DOMAIN csv' :
              Cardinality({j \in DOMAIN store' :
                  \A f \in RecordFields : csv'[i][f[1]] = <<store'[j][f[2]]>>})
                = ok_runs' * Cardinality({j \in DOMAIN csv' : csv'[j] = csv'[i]})

\* C7: over renders that share the table, a step never changes or removes a
\* row, the ids of the table are all different, the ingestion of a file of N
\* rows that reaches its end leaves N rows more than the render began with,
\* and after k such ingestions the table holds every row of the file k times
\* as often as the file does.
C7_AppendOnlyNoDedup == [][C7_Step]_vars

\* The second ingestion of a file of two rows reached its end.
C7_Witness ==
    /\ ok_runs = 2
    /\ Len(csv) = 2
    /\ Len(store) = 4
    /\ Copies(csv[1]) >= 2

\* C8 as stated: a render that opened the connection has closed it when
\* main() returns.
C8_ConnectionClosedAtReturn ==
    (pc = "returned" /\ conn # "none") => conn = "closed"

\* The render is over after insert_data refused a row.
RowRefused == ingest = "insert_error"

\* C9 as stated: a refused row does not end the session: the rows after it are
\* ingested and the render reaches the e-mail input and its scan.
C9_RefusedRowNotFatal ==
    (RowRefused /\ pc = "returned") =>
        /\ row_i > Len(csv)
        /\ email_commerciale # None

\* C9, amended: a refused row ends the render: the error is shown, main()
\* returns, no row after the refused one is inserted, and the e-mail input, the
\* scan, the filter and the agent are not reached.
C9_RefusedRowEndsRender ==
    RowRefused =>
        /\ pc = "returned"
        /\ ~NotNullOk(DataOf(csv[row_i]))
        /\ Len(store) = Len(store0) + row_i - 1
        /\ Len(ui) > 0
        /\ ui[Len(ui)] = "error: Errore durante il caricamento dei dati dal CSV"
        /\ email_commerciale = None
        /\ df_commerciale = <<>>
        /\ risultati_query = <<>>
        /\ risposta_agente = None

\* A row was refused while well-formed rows follow it in the file.
C9_Witness ==
    /\ RowRefused
    /\ pc = "returned"
    /\ row_i = 1
    /\ Len(csv) = 2
    /\ NotNullOk(DataOf(csv[2]))

\* C10: when the ingestion fails at row k of the file (k = 1 when the file
\* cannot be read), the table is what the render began with, followed by the
\* rows 1..k-1 of the file in their order, and by nothing else.
C10_PartialIngestion ==
    (ingest \in {"insert_error", "read_error"}) =>
        LET k == IF ingest = "read_error" THEN 1 ELSE row_i
            n == Len(store0)
        IN  /\ Len(store) = n + k - 1
            /\ \A j \in 1..n : store[j] = store0[j]
            /\ \A j \in 1..(k - 1) : SameOn(store[n + j], csv[j], RecordFields)

\* The ingestion failed at the second row over a table that held rows.
C10_Witness ==
    /\ ingest = "insert_error"
    /\ row_i = 2
    /\ Len(store0) > 0
    /\ Len(store) = Len(store0) + 1
====
